---- MODULE Spec2Model ----
(***************************************************************************)
(* A model of sys_util::MemoryMapping (src/sys_util/src/mmap.rs): one      *)
(* region of address space obtained with mmap, its bounds-checked          *)
(* accessors, the VolatileMemory view and the release on drop.             *)
(*                                                                         *)
(* Scaling.  usize, u64 and off_t are 64 bits wide in the program.  The    *)
(* model keeps the same relations between them at WordBits bits: usize and *)
(* u64 range over 0..USIZE_MAX, off_t::max_value() is the largest signed   *)
(* value of the same width.  A byte is scaled to one bit: it is 0 or 1,    *)
(* and a plain-data value of n bytes has n binary digits.                  *)
(***************************************************************************)
EXTENDS Integers, Sequences, FiniteSets, TLC

VARIABLES
    lifecycle,  \* "init" | "active" | "failed" | "released" | "killed"
    addr,       \* MemoryMapping.addr (0 while there is no region)
    size,       \* MemoryMapping.size
    prot,       \* protection the kernel mapped the span with
    mem,        \* the mapped bytes: region offset -> byte
    mmaps,      \* every span the kernel has granted so far, as <<addr, len>>
    munmaps,    \* every munmap issued so far, as <<addr, len>>
    last        \* what the last operation was given, did and returned

vars == <<lifecycle, addr, size, prot, mem, mmaps, munmaps, last>>

----------------------------------------------------------------------------
(* Bounds of the model *)

WordBits == 4
MaxSize == 3
MaxObj == 2
\* Bytes in a page of the kernel's memory management.
PageSize == 2
\* Buffers, sources and sinks are up to one byte longer than any region.
MaxBuf == MaxSize + 1

RECURSIVE Pow(_, _)
Pow(b, e) == IF e = 0 THEN 1 ELSE b * Pow(b, e - 1)

USIZE_MAX == Pow(2, WordBits) - 1
U64_MAX == Pow(2, WordBits) - 1
OFF_T_MAX == Pow(2, WordBits - 1) - 1

Bytes == {0, 1}
ByteBase == Cardinality(Bytes)
Min(a, b) == IF a <= b THEN a ELSE b

\* Buffers of every length up to MaxBuf, with neighbouring bytes different.
Pattern(first, len) == [j \in 1 .. len |-> (first + j - 1) % ByteBase]
Bufs == { Pattern(first, len) : first \in Bytes, len \in 0 .. MaxBuf }

\* Arguments the callers pass: everything around the region's end, and the
\* top of the word where offset + count overflows.
Offsets == (0 .. (MaxSize + 1)) \cup {USIZE_MAX}
Counts == (0 .. (MaxSize + 1)) \cup {USIZE_MAX}
Sizes == (0 .. MaxSize) \cup {USIZE_MAX}
FileOffsets == {0, 1, OFF_T_MAX, OFF_T_MAX + 1, USIZE_MAX}
\* A descriptor: an open file, or -1 (as the tests build with from_raw_fd(-1)).
Fds == {3, -1}
\* Addresses the kernel may place a mapping at: page-aligned, never 0, never
\* wrapping.
Addrs == {2 * PageSize, 4 * PageSize}

----------------------------------------------------------------------------
(* Results *)

Ok(v) == [ok |-> TRUE, val |-> v, err |-> <<>>]
Err(e) == [ok |-> FALSE, val |-> <<>>, err |-> e]
Panicked == Err(<<"panic">>)

InvalidAddress == <<"InvalidAddress">>
InvalidOffset == <<"InvalidOffset">>
InvalidRange(offset, count) == <<"InvalidRange", offset, count>>
ReadFromSource(e) == <<"ReadFromSource", e>>
SystemCallFailed(e) == <<"SystemCallFailed", e>>
WriteToMemory(e) == <<"WriteToMemory", e>>
ReadFromMemory(e) == <<"ReadFromMemory", e>>

\* VolatileMemoryError
Overflow(base, offset) == <<"Overflow", base, offset>>
OutOfBounds(a) == <<"OutOfBounds", a>>

----------------------------------------------------------------------------
(* Protection *)

Protection_none == {}
Protection_read_write == {"r", "w"}
Protection_set_read(p) == p \cup {"r"}
Protection_set_write(p) == p \cup {"w"}
Protections ==
    { Protection_none, Protection_read_write,
      Protection_set_read(Protection_none),
      Protection_set_write(Protection_none) }

----------------------------------------------------------------------------
(* The kernel, as far as the program calls it.  A system call is logged as  *)
(* <<name, a, b, c>>.                                                       *)

SysMmapAnon(len) == <<"mmap_anon", len, -1, 0>>
SysMmapFile(len, fd, off) == <<"mmap_file", len, fd, off>>
SysDontDump(a, len) == <<"madvise_DONTDUMP", a, len, 0>>
SysRemove(a, len) == <<"madvise_REMOVE", a, len, 0>>
SysMunmap(a, len) == <<"munmap", a, len, 0>>

\* What mmap may answer: MAP_FAILED with an errno, or an address.  A bad
\* descriptor is EBADF, a zero length is EINVAL; any other request is refused
\* for lack of memory or granted at an address of the kernel's choosing where
\* the span fits the address space.
MmapAnswers(len, anon, fd) ==
    IF ~anon /\ fd < 0 THEN { [failed |-> TRUE, errno |-> "EBADF", addr |-> 0] }
    ELSE IF len = 0 THEN { [failed |-> TRUE, errno |-> "EINVAL", addr |-> 0] }
    ELSE { [failed |-> TRUE, errno |-> "ENOMEM", addr |-> 0] }
         \cup { [failed |-> FALSE, errno |-> "", addr |-> a] :
                    a \in { x \in Addrs : x + len <= USIZE_MAX } }

\* The contents a fresh mapping may have: zero pages when anonymous, whatever
\* the file holds otherwise.
FreshContents(len, anon) ==
    IF anon THEN { [i \in 0 .. (len - 1) |-> 0] }
    ELSE [0 .. (len - 1) -> Bytes]

----------------------------------------------------------------------------
(* Creation.  Each operator is the function of the same name, given the     *)
(* kernel's answers: k to mmap, advOk to madvise(MADV_DONTDUMP).            *)

Created(res, p, sys, warned) ==
    [res |-> res, prot |-> p, sys |-> sys, warned |-> warned]

\* new_protection that records the size rounded down to an even number.
new_protection_rounded(sz, p, k, advOk) ==
    IF k.failed
    THEN Created(Err(SystemCallFailed(k.errno)), p, << SysMmapAnon(sz) >>, FALSE)
    ELSE Created(Ok(<<k.addr, sz - (sz % 2)>>), p,
                 << SysMmapAnon(sz), SysDontDump(k.addr, sz) >>, ~advOk)

\* new_protection that gives the mapping up when the advisory fails.
new_protection_fatal(sz, p, k, advOk) ==
    IF k.failed
    THEN Created(Err(SystemCallFailed(k.errno)), p, << SysMmapAnon(sz) >>, FALSE)
    ELSE IF ~advOk
    THEN Created(Err(SystemCallFailed("EINVAL")), p,
                 << SysMmapAnon(sz), SysDontDump(k.addr, sz),
                    SysMunmap(k.addr, sz) >>, TRUE)
    ELSE Created(Ok(<<k.addr, sz>>), p,
                 << SysMmapAnon(sz), SysDontDump(k.addr, sz) >>, FALSE)

new_protection(sz, p, k, advOk) ==
    IF k.failed
    THEN Created(Err(SystemCallFailed(k.errno)), p, << SysMmapAnon(sz) >>, FALSE)
    ELSE Created(Ok(<<k.addr, sz>>), p,
                 << SysMmapAnon(sz), SysDontDump(k.addr, sz) >>, ~advOk)

new(sz, k, advOk) == new_protection(sz, Protection_read_write, k, advOk)

\* from_fd_offset that looks at the offset only after mmap has answered.
from_fd_offset_late(fd, sz, offset, k, advOk) ==
    IF k.failed
    THEN Created(Err(SystemCallFailed(k.errno)), Protection_read_write,
                 << SysMmapFile(sz, fd, offset) >>, FALSE)
    ELSE IF offset > OFF_T_MAX
    THEN Created(Err(InvalidOffset), Protection_read_write,
                 << SysMmapFile(sz, fd, offset), SysMunmap(k.addr, sz) >>, FALSE)
    ELSE Created(Ok(<<k.addr, sz>>), Protection_read_write,
                 << SysMmapFile(sz, fd, offset), SysDontDump(k.addr, sz) >>,
                 ~advOk)

from_fd_offset(fd, sz, offset, k, advOk) ==
    IF offset > OFF_T_MAX
    THEN Created(Err(InvalidOffset), Protection_read_write, <<>>, FALSE)
    ELSE IF k.failed
    THEN Created(Err(SystemCallFailed(k.errno)), Protection_read_write,
                 << SysMmapFile(sz, fd, offset) >>, FALSE)
    ELSE Created(Ok(<<k.addr, sz>>), Protection_read_write,
                 << SysMmapFile(sz, fd, offset), SysDontDump(k.addr, sz) >>,
                 ~advOk)

from_fd(fd, sz, k, advOk) == from_fd_offset(fd, sz, 0, k, advOk)

\* A drop that unmaps and then unmaps again.
drop_twice == << SysMunmap(addr, size), SysMunmap(addr, size) >>

\* impl Drop: one munmap of (addr, size).
drop == << SysMunmap(addr, size) >>

IsMunmap(c) == c[1] = "munmap"
IsMmap(c) == c[1] \in {"mmap_anon", "mmap_file"}
IsDontDump(c) == c[1] = "madvise_DONTDUMP"

----------------------------------------------------------------------------
(* Accessors.  Each operator is the method of the same name, evaluated on   *)
(* the current region (addr, size, mem).  It yields what the call returns   *)
(* (res), the bytes of the region afterwards (mem) and what the call        *)
(* touched, as region offsets: rd (loaded), wr (stored), dis (handed to the *)
(* discard advisory), view (covered by a returned VolatileSlice), zeroed    *)
(* (bytes of the region the kernel discarded); adv tells how the discard    *)
(* advisory was answered ("none" when it was not issued).                   *)

Outcome(res, m, rd, wr) ==
    [res |-> res, mem |-> m, rd |-> rd, wr |-> wr, dis |-> {}, view |-> {},
     out |-> <<>>, sys |-> <<>>, taken |-> 0, sunk |-> <<>>,
     zeroed |-> {}, adv |-> "none"]

Untouched(res) == Outcome(res, mem, {}, {})

\* usize::checked_add: -1 stands for None.
checked_add(a, b) == IF a + b > USIZE_MAX THEN -1 ELSE a + b

\* Store the bytes of s at region offsets from, from+1, ...
Stored(m, from, s) ==
    [i \in DOMAIN m |->
        IF i >= from /\ i < from + Len(s) THEN s[i - from + 1] ELSE m[i]]

\* Load n bytes from region offset from (0 where nothing is mapped).
Loaded(m, from, n) ==
    [j \in 1 .. n |-> IF (from + j - 1) \in DOMAIN m THEN m[from + j - 1] ELSE 0]

Span(from, n) == from .. (from + n - 1)

\* range_end with a wrapping sum in place of checked_add.
range_end_wrapping(offset, count) ==
    LET mem_end == (offset + count) % (USIZE_MAX + 1) IN
    IF mem_end > size THEN Err(InvalidAddress) ELSE Ok(<<mem_end>>)

\* Check that offset+count is valid and return the sum.
range_end(offset, count) ==
    LET mem_end == checked_add(offset, count) IN
    IF mem_end < 0 THEN Err(InvalidAddress)
    ELSE IF mem_end > size THEN Err(InvalidAddress)
    ELSE Ok(<<mem_end>>)

\* as_slice()[offset..] and as_mut_slice()[offset..]: the slice of size bytes
\* indexed from offset; indexing past the end panics.  Yields the length of
\* the sub-slice, -1 for a panic.
slice_from(offset) == IF offset > size THEN -1 ELSE size - offset

\* as_mut_slice()[a..b]
slice_range(a, b) == IF a > b \/ b > size THEN -1 ELSE b - a

\* write_slice that refuses a buffer longer than the room left.
write_slice_strict(buf, offset) ==
    IF offset >= size \/ Len(buf) > size - offset
    THEN Untouched(Err(InvalidAddress))
    ELSE Outcome(Ok(<<Len(buf)>>), Stored(mem, offset, buf), {},
                 Span(offset, Len(buf)))

write_slice(buf, offset) ==
    IF offset >= size THEN Untouched(Err(InvalidAddress))
    ELSE LET len == slice_from(offset)
             \* impl Write for &mut [u8]: copies min(buf.len(), self.len())
             amt == Min(Len(buf), len)
         IN  IF len < 0 THEN Untouched(Panicked)
             ELSE Outcome(Ok(<<amt>>), Stored(mem, offset, SubSeq(buf, 1, amt)),
                          {}, Span(offset, amt))

read_slice(buf, offset) ==
    IF offset >= size THEN [Untouched(Err(InvalidAddress)) EXCEPT !.out = buf]
    ELSE LET len == slice_from(offset)
             amt == Min(Len(buf), len)
         IN  IF len < 0 THEN [Untouched(Panicked) EXCEPT !.out = buf]
             ELSE [Outcome(Ok(<<amt>>), mem, Span(offset, amt), {})
                      EXCEPT !.out = Loaded(mem, offset, amt)
                                       \o SubSeq(buf, amt + 1, Len(buf))]

\* A plain-data value of n bytes is the number val < ByteBase^n; its bit
\* pattern in memory is its little-endian digits.
\* The digits stored most significant first.
to_bytes_reversed(val, n) ==
    [j \in 1 .. n |-> (val \div Pow(ByteBase, n - j)) % ByteBase]

to_bytes(val, n) == [j \in 1 .. n |-> (val \div Pow(ByteBase, j - 1)) % ByteBase]

RECURSIVE from_bytes(_)
from_bytes(s) ==
    IF s = <<>> THEN 0 ELSE Head(s) + ByteBase * from_bytes(Tail(s))

Values(n) == 0 .. (Pow(ByteBase, n) - 1)

write_obj(val, n, offset) ==
    LET e == range_end(offset, n) IN
    IF ~e.ok THEN Untouched(Err(e.err))
    ELSE IF slice_from(offset) < 0 THEN Untouched(Panicked)
    ELSE Outcome(Ok(<<>>), Stored(mem, offset, to_bytes(val, n)),
                 {}, Span(offset, n))

read_obj(n, offset) ==
    LET e == range_end(offset, n) IN
    IF ~e.ok THEN Untouched(Err(e.err))
    ELSE IF slice_from(offset) < 0 THEN Untouched(Panicked)
    ELSE Outcome(Ok(<<from_bytes(Loaded(mem, offset, n))>>), mem,
                 Span(offset, n), {})

\* A source is the bytes it delivers before it ends or fails; read_exact
\* stores what arrives and succeeds only when the whole slice was filled.
\* A single read in place of read_exact: whatever arrived is a success.
read_once(m, from, len, src) ==
    LET got == Min(Len(src), len) IN
    [ Outcome(Ok(<<>>), Stored(m, from, SubSeq(src, 1, got)), {}, Span(from, got))
        EXCEPT !.taken = got ]

read_exact(m, from, len, src) ==
    LET got == Min(Len(src), len) IN
    [ Outcome(IF got = len THEN Ok(<<>>) ELSE Err("io"),
              Stored(m, from, SubSeq(src, 1, got)), {}, Span(from, got))
        EXCEPT !.taken = got ]

\* read_to_memory that lets range_end's own error through.
read_to_memory_unmapped(mem_offset, src, count) ==
    LET e == range_end(mem_offset, count) IN
    IF ~e.ok THEN Untouched(Err(e.err))
    ELSE LET r == read_exact(mem, mem_offset, count, src) IN
         IF r.res.ok THEN r
         ELSE [r EXCEPT !.res = Err(ReadFromSource(r.res.err))]

read_to_memory(mem_offset, src, count) ==
    LET e == range_end(mem_offset, count) IN
    IF ~e.ok THEN Untouched(Err(InvalidRange(mem_offset, count)))
    ELSE LET mem_end == e.val[1]
             len == slice_range(mem_offset, mem_end)
             r == read_exact(mem, mem_offset, len, src)
         IN  IF len < 0 THEN Untouched(Panicked)
             ELSE IF r.res.ok THEN r
             ELSE [r EXCEPT !.res = Err(ReadFromSource(r.res.err))]

\* A sink is the number of bytes it accepts before it fails or stops
\* accepting; write_all succeeds only when the whole slice was accepted.
write_all(m, from, len, cap) ==
    LET put == Min(cap, len) IN
    [ Outcome(IF put = len THEN Ok(<<>>) ELSE Err("io"),
              m, Span(from, put), {})
        EXCEPT !.sunk = Loaded(m, from, put) ]

\* write_from_memory that reports a sink failure as WriteToMemory.
write_from_memory_renamed(mem_offset, cap, count) ==
    LET e == range_end(mem_offset, count) IN
    IF ~e.ok THEN Untouched(Err(InvalidRange(mem_offset, count)))
    ELSE LET r == write_all(mem, mem_offset, count, cap) IN
         IF r.res.ok THEN r
         ELSE [r EXCEPT !.res = Err(WriteToMemory(r.res.err))]

write_from_memory(mem_offset, cap, count) ==
    LET e == range_end(mem_offset, count) IN
    IF ~e.ok THEN Untouched(Err(InvalidRange(mem_offset, count)))
    ELSE LET mem_end == e.val[1]
             len == slice_range(mem_offset, mem_end)
             r == write_all(mem, mem_offset, len, cap)
         IN  IF len < 0 THEN Untouched(Panicked)
             ELSE IF r.res.ok THEN r
             ELSE [r EXCEPT !.res = Err(ReadFromSource(r.res.err))]

\* The kernel works on whole pages: a length is rounded up to a page multiple.
PAGE_ALIGN(len) == ((len + PageSize - 1) \div PageSize) * PageSize

\* How madvise(a, len, MADV_REMOVE) may be answered: an address that is not
\* page-aligned is refused (EINVAL); any other request is carried out or
\* page-aligned is refused (EINVAL); a request of no bytes is granted; a
\* request on a mapping that is not writable is refused (EACCES); any other
\* request is carried out or refused (the backing cannot be punched).
RemoveAnswers(a, len) ==
    IF a % PageSize # 0 THEN {FALSE}
    ELSE IF len = 0 THEN {TRUE}
    ELSE IF "w" \notin prot THEN {FALSE}
    ELSE BOOLEAN

\* The region offsets whose bytes madvise(a, len, MADV_REMOVE) discards when
\* the kernel carries it out: every byte of the pages from a to the end of
\* the page that holds a+len-1.
Discarded(m, a, len) ==
    { i \in DOMAIN m : addr + i >= a /\ addr + i < a + PAGE_ALIGN(len) }

\* The bytes afterwards: the discarded ones read as zero.
Removed(m, a, len) ==
    [i \in DOMAIN m |-> IF i \in Discarded(m, a, len) THEN 0 ELSE m[i]]

\* remove_range that takes the advisory's answer for granted.
remove_range_unchecked(mem_offset, count, advOk) ==
    LET e == range_end(mem_offset, count) IN
    IF ~e.ok THEN Untouched(Err(InvalidRange(mem_offset, count)))
    ELSE LET a == addr + mem_offset IN
         [ Outcome(Ok(<<>>), IF advOk THEN Removed(mem, a, count) ELSE mem, {}, {})
             EXCEPT !.sys = << SysRemove(a, count) >>,
                    !.dis = Span(mem_offset, count),
                    !.adv = IF advOk THEN "ok" ELSE "failed",
                    !.zeroed = IF advOk THEN Discarded(mem, a, count) ELSE {} ]

remove_range(mem_offset, count, advOk) ==
    LET e == range_end(mem_offset, count) IN
    IF ~e.ok THEN Untouched(Err(InvalidRange(mem_offset, count)))
    ELSE LET a == addr + mem_offset IN
         IF ~advOk
         THEN [ Untouched(Err(InvalidRange(mem_offset, count)))
                  EXCEPT !.sys = << SysRemove(a, count) >>,
                         !.dis = Span(mem_offset, count),
                         !.adv = "failed" ]
         ELSE [ Outcome(Ok(<<>>), Removed(mem, a, count), {}, {})
                  EXCEPT !.sys = << SysRemove(a, count) >>,
                         !.dis = Span(mem_offset, count),
                         !.adv = "ok",
                         !.zeroed = Discarded(mem, a, count) ]

\* data_model::volatile_memory::calc_offset: base + offset, checked in u64.
calc_offset(base, offset) ==
    IF base + offset > U64_MAX THEN Err(Overflow(base, offset))
    ELSE Ok(<<base + offset>>)

\* get_slice that refuses a view reaching the last byte.
get_slice_short(offset, count) ==
    LET e == calc_offset(offset, count) IN
    IF ~e.ok THEN Untouched(Err(e.err))
    ELSE LET mem_end == e.val[1] IN
         IF mem_end >= size THEN Untouched(Err(OutOfBounds(mem_end)))
         ELSE [ Untouched(Ok(<<addr + offset, count>>))
                  EXCEPT !.view = Span(offset, count) ]

\* impl VolatileMemory: the VolatileSlice returned is <<start address, length>>.
get_slice(offset, count) ==
    LET e == calc_offset(offset, count) IN
    IF ~e.ok THEN Untouched(Err(e.err))
    ELSE LET mem_end == e.val[1] IN
         IF mem_end > size THEN Untouched(Err(OutOfBounds(mem_end)))
         ELSE [ Untouched(Ok(<<addr + offset, count>>))
                  EXCEPT !.view = Span(offset, count) ]

\* VolatileMemory::get_ref::<T>(offset) followed by VolatileRef::store(val):
\* the view of size_of::<T>() bytes at offset, and a volatile store through it.
ref_store(val, n, offset) ==
    LET s == get_slice(offset, n) IN
    IF ~s.res.ok THEN s
    ELSE LET at == s.res.val[1] - addr IN
         [ Outcome(Ok(<<>>), Stored(mem, at, to_bytes(val, n)), {}, Span(at, n))
             EXCEPT !.view = s.view ]

----------------------------------------------------------------------------
(* The state machine: one region from creation to drop.                     *)

NoCall ==
    [op |-> "none", a |-> 0, b |-> 0, v |-> 0, buf |-> <<>>,
     res |-> Ok(<<>>), out |-> <<>>, rd |-> {}, wr |-> {}, dis |-> {},
     view |-> {}, sys |-> <<>>, taken |-> 0, sunk |-> <<>>, warned |-> FALSE,
     zeroed |-> {}, adv |-> "none"]

Call(op, a, b, v, buf) == [NoCall EXCEPT !.op = op, !.a = a, !.b = b, !.v = v, !.buf = buf]

Init ==
    /\ lifecycle = "init"
    /\ addr = 0
    /\ size = 0
    /\ prot = {}
    /\ mem = <<>>
    /\ mmaps = <<>>
    /\ munmaps = <<>>
    /\ last = NoCall

Spans(calls) == [i \in 1 .. Len(calls) |-> <<calls[i][2], calls[i][3]>>]

\* A creation call returns: the region exists exactly when the result is Ok,
\* and the kernel has granted a span exactly when the call issued mmap and
\* the answer k was not MAP_FAILED.
Create(call, o, anon, k) ==
    /\ lifecycle = "init"
    /\ last' = [call EXCEPT !.res = o.res, !.sys = o.sys, !.warned = o.warned]
    /\ munmaps' = munmaps \o Spans(SelectSeq(o.sys, IsMunmap))
    /\ mmaps' = IF o.sys # <<>> /\ IsMmap(o.sys[1]) /\ ~k.failed
                THEN Append(mmaps, <<k.addr, o.sys[1][2]>>)
                ELSE mmaps
    /\ IF o.res.ok
       THEN /\ lifecycle' = "active"
            /\ addr' = o.res.val[1]
            /\ size' = o.res.val[2]
            /\ prot' = o.prot
            /\ mem' \in FreshContents(o.sys[1][2], anon)
       ELSE /\ lifecycle' = "failed"
            /\ UNCHANGED <<addr, size, prot, mem>>

New ==
    \E sz \in Sizes : \E k \in MmapAnswers(sz, TRUE, -1) : \E advOk \in BOOLEAN :
        Create(Call("new", sz, 0, -1, <<>>), new(sz, k, advOk), TRUE, k)

NewProtection ==
    \E sz \in Sizes, p \in Protections :
    \E k \in MmapAnswers(sz, TRUE, -1) : \E advOk \in BOOLEAN :
        Create(Call("new_protection", sz, 0, -1, <<>>),
               new_protection(sz, p, k, advOk), TRUE, k)

FromFd ==
    \E fd \in Fds, sz \in Sizes :
    \E k \in MmapAnswers(sz, FALSE, fd) : \E advOk \in BOOLEAN :
        Create(Call("from_fd", sz, 0, fd, <<>>), from_fd(fd, sz, k, advOk), FALSE, k)

FromFdOffset ==
    \E fd \in Fds, sz \in Sizes, offset \in FileOffsets :
    \E k \in MmapAnswers(sz, FALSE, fd) : \E advOk \in BOOLEAN :
        Create(Call("from_fd_offset", sz, offset, fd, <<>>),
               from_fd_offset(fd, sz, offset, k, advOk), FALSE, k)

\* A load or store the mapping's protection forbids raises SIGSEGV and the
\* call never returns.  Loading from a write-only mapping is up to the platform.
MustFault(o) == (o.wr # {} /\ "w" \notin prot) \/ (o.rd # {} /\ prot = {})
MayFault(o) == MustFault(o) \/ (o.rd # {} /\ "r" \notin prot)

\* An accessor call on the live region returns.
Access(call, o) ==
    /\ lifecycle = "active"
    /\ last = NoCall
    /\ ~MustFault(o)
    /\ mem' = o.mem
    /\ last' = [call EXCEPT !.res = o.res, !.out = o.out, !.rd = o.rd,
                            !.wr = o.wr, !.dis = o.dis, !.view = o.view,
                            !.sys = o.sys, !.taken = o.taken, !.sunk = o.sunk,
                            !.zeroed = o.zeroed, !.adv = o.adv]
    /\ UNCHANGED <<lifecycle, addr, size, prot, mmaps, munmaps>>

\* An accessor call on the live region is killed by the kernel.
Fault(call, o) ==
    /\ lifecycle = "active"
    /\ last = NoCall
    /\ MayFault(o)
    /\ lifecycle' = "killed"
    /\ last' = [call EXCEPT !.op = "fault"]
    /\ UNCHANGED <<addr, size, prot, mem, mmaps, munmaps>>

Run(call, o) == Access(call, o) \/ Fault(call, o)

Size == Run(Call("size", 0, 0, 0, <<>>), Untouched(Ok(<<size>>)))

WriteSlice ==
    \E buf \in Bufs, offset \in Offsets :
        Run(Call("write_slice", offset, 0, 0, buf), write_slice(buf, offset))

ReadSlice ==
    \E buf \in Bufs, offset \in Offsets :
        Run(Call("read_slice", offset, 0, 0, buf), read_slice(buf, offset))

WriteObj ==
    \E n \in 1 .. MaxObj, offset \in Offsets : \E val \in Values(n) :
        Run(Call("write_obj", offset, n, val, <<>>), write_obj(val, n, offset))

ReadObj ==
    \E n \in 1 .. MaxObj, offset \in Offsets :
        Run(Call("read_obj", offset, n, 0, <<>>), read_obj(n, offset))

ReadToMemory ==
    \E mem_offset \in Offsets, src \in Bufs, count \in Counts :
        Run(Call("read_to_memory", mem_offset, count, 0, src),
            read_to_memory(mem_offset, src, count))

WriteFromMemory ==
    \E mem_offset \in Offsets, cap \in 0 .. MaxBuf, count \in Counts :
        Run(Call("write_from_memory", mem_offset, count, cap, <<>>),
            write_from_memory(mem_offset, cap, count))

RemoveRange ==
    \E mem_offset \in Offsets, count \in Counts :
    \E advOk \in RemoveAnswers(addr + mem_offset, count) :
        Run(Call("remove_range", mem_offset, count, 0, <<>>),
            remove_range(mem_offset, count, advOk))

GetSlice ==
    \E offset \in Offsets, count \in Counts :
        Run(Call("get_slice", offset, count, 0, <<>>), get_slice(offset, count))

RefStore ==
    \E n \in 1 .. MaxObj, offset \in Offsets : \E val \in Values(n) :
        Run(Call("ref_store", offset, n, val, <<>>), ref_store(val, n, offset))

\* The caller has taken the result.  The methods take &self and the region
\* keeps nothing of a call, so the next call starts from the region alone.
Consume ==
    /\ lifecycle = "active"
    /\ last # NoCall
    /\ last' = NoCall
    /\ UNCHANGED <<lifecycle, addr, size, prot, mem, mmaps, munmaps>>

\* The owner lets go of the region: impl Drop runs, once, and no accessor
\* can be called on a dropped value.
Drop ==
    /\ lifecycle = "active"
    /\ last = NoCall
    /\ lifecycle' = "released"
    /\ munmaps' = munmaps \o Spans(drop)
    /\ mem' = <<>>
    /\ UNCHANGED <<addr, size, prot, mmaps, last>>

Next ==
    \/ New
    \/ NewProtection
    \/ FromFd
    \/ FromFdOffset
    \/ Size
    \/ WriteSlice
    \/ ReadSlice
    \/ WriteObj
    \/ ReadObj
    \/ ReadToMemory
    \/ WriteFromMemory
    \/ RemoveRange
    \/ GetSlice
    \/ RefStore
    \/ Consume
    \/ Drop

Spec == Init /\ [][Next]_vars

----------------------------------------------------------------------------
(* Properties *)

Region == 0 .. (size - 1)
Accessors ==
    {"write_slice", "read_slice", "write_obj", "read_obj", "read_to_memory",
     "write_from_memory", "remove_range", "get_slice", "ref_store"}

\* The count a call asks for beside its offset.
CallCount(l) ==
    IF l.op \in {"write_slice", "read_slice"} THEN Len(l.buf) ELSE l.b

Touched(l) == l.rd \cup l.wr \cup l.dis \cup l.view

\* C1: whatever sequence of accessor calls the threads sharing the region
\* have made, every region offset the last call loaded, stored, handed to the
\* discard advisory or covered by a returned view lies in [0, size); a call
\* whose offset + count exceeds the word is answered with an error value,
\* having touched nothing; and no step of a live region changes addr or
\* size, the only state a bounds check reads, so a check made by one thread
\* stays good whatever calls of other threads come between it and the access.
C1_Checked ==
    /\ Touched(last) \subseteq Region
    /\ last.op \in Accessors /\ last.a + CallCount(last) > USIZE_MAX
         => /\ ~last.res.ok
            /\ last.res # Panicked
            /\ Touched(last) = {}

C1_Stable ==
    lifecycle = "active" => addr' = addr /\ size' = size

C2_StatePart ==
    /\ lifecycle \in {"init", "active", "killed"} => munmaps = <<>>
    /\ lifecycle = "failed"
         => /\ munmaps = <<>>
            /\ mmaps = <<>>
            /\ ~last.res.ok
            /\ last.res.err[1] \in {"InvalidOffset", "SystemCallFailed"}
    /\ lifecycle = "released"
         => /\ munmaps = << <<addr, size>> >>
            /\ munmaps = mmaps

C2_ReleaseOnce ==
    /\ []C2_StatePart
    /\ [][munmaps # <<>> => UNCHANGED vars]_vars

C2_Witness ==
    /\ lifecycle = "released"
    /\ size = MaxSize
    /\ munmaps = << <<addr, MaxSize>> >>

\* The bytes of the region outside the offsets in S are the same before and
\* after the step.
SameOutside(S) == \A i \in Region \ S : mem'[i] = mem[i]

\* C3: a write_slice or read_slice call that returns fails with
\* InvalidAddress when offset >= size, region and buffer unchanged; otherwise
\* it returns Ok(n), n = min(len, size - offset), having copied the first n
\* bytes between buf[0..n) and region[offset..offset+n) and nothing else.
C3_WriteSlice ==
    last'.op = "write_slice" =>
        LET offset == last'.a
            buf == last'.buf
            n == Min(Len(buf), size - offset)
        IN  IF offset >= size
            THEN last'.res = Err(InvalidAddress) /\ mem' = mem
            ELSE /\ last'.res = Ok(<<n>>)
                 /\ \A j \in 1 .. n : mem'[offset + j - 1] = buf[j]
                 /\ SameOutside(Span(offset, n))

C3_ReadSlice ==
    last'.op = "read_slice" =>
        LET offset == last'.a
            buf == last'.buf
            n == Min(Len(buf), size - offset)
        IN  /\ mem' = mem
            /\ Len(last'.out) = Len(buf)
            /\ IF offset >= size
               THEN last'.res = Err(InvalidAddress) /\ last'.out = buf
               ELSE /\ last'.res = Ok(<<n>>)
                    /\ \A j \in 1 .. n : last'.out[j] = mem[offset + j - 1]
                    /\ \A j \in (n + 1) .. Len(buf) : last'.out[j] = buf[j]

C3_TruncatingSlice == [][C3_WriteSlice /\ C3_ReadSlice]_vars

C3_Witness ==
    /\ last.op = "write_slice"
    /\ last.res.ok
    /\ last.res.val[1] > 0
    /\ last.res.val[1] < Len(last.buf)
    /\ last.a > 0

\* C4: a write_obj (or a store through a get_ref view) of a value of n
\* bytes at an offset with offset + n <= size returns Ok, changes no byte
\* outside [offset, offset + n), and read_obj of the same type at that offset
\* then returns the value; what read_obj returns at an offset stays the same
\* over every later call that stores to or discards no byte of its range.
C4_Store ==
    last'.op \in {"write_obj", "ref_store"} /\ last'.a + last'.b <= size =>
        /\ last'.res = Ok(<<>>)
        /\ \A n \in 1 .. MaxObj, offset \in Offsets :
              n = last'.b /\ offset = last'.a
                  => read_obj(n, offset)'.res = Ok(<<last'.v>>)
        /\ SameOutside(Span(last'.a, last'.b))

C4_Keep ==
    lifecycle = "active" /\ lifecycle' = "active" =>
        \A n \in 1 .. MaxObj, offset \in Region :
            (last'.wr \cup last'.zeroed) \cap Span(offset, n) = {}
                => read_obj(n, offset)'.res = read_obj(n, offset).res

C4_TypedRoundTrip == [][C4_Store /\ C4_Keep]_vars

C4_Witness ==
    /\ last.op = "write_obj"
    /\ last.res.ok
    /\ last.b = MaxObj
    /\ last.v = Pow(ByteBase, MaxObj) - ByteBase
    /\ read_obj(last.b, last.a).res = Ok(<<last.v>>)

\* C5: when offset + count overflows or exceeds size, write_obj and read_obj
\* fail with InvalidAddress while read_to_memory and write_from_memory fail
\* with InvalidRange carrying the two arguments of the call; the region is
\* unchanged, nothing is taken from the source and nothing reaches the sink.
C5_OutOfRange ==
    last'.a + last'.b > size =>
        /\ last'.op \in {"write_obj", "read_obj"}
             => last'.res = Err(InvalidAddress) /\ mem' = mem
        /\ last'.op \in {"read_to_memory", "write_from_memory"}
             => /\ last'.res = Err(InvalidRange(last'.a, last'.b))
                /\ mem' = mem
                /\ last'.taken = 0
                /\ last'.sunk = <<>>

C5_ErrorAsymmetry == [][C5_OutOfRange]_vars

C5_Witness ==
    /\ last.op = "read_to_memory"
    /\ last.a + last.b > USIZE_MAX
    /\ last.a < size
    /\ last.buf # <<>>
    /\ last.res = Err(InvalidRange(last.a, last.b))

\* C6: read_to_memory on a valid range returns Ok only when the source
\* delivered count bytes, which are then region[mem_offset..mem_offset+count)
\* in order with every other byte unchanged; when the source delivers fewer
\* it returns ReadFromSource.
C6_Valid ==
    last'.op = "read_to_memory" /\ last'.a + last'.b <= size =>
        LET mem_offset == last'.a
            count == last'.b
            src == last'.buf
        IN  /\ last'.res.ok
              => /\ last'.taken = count
                 /\ Len(src) >= count
                 /\ \A j \in 1 .. count : mem'[mem_offset + j - 1] = src[j]
                 /\ SameOutside(Span(mem_offset, count))
            /\ Len(src) < count
              => /\ ~last'.res.ok
                 /\ last'.res.err[1] = "ReadFromSource"

C6_ReadToMemory == [][C6_Valid]_vars

C6_Witness ==
    /\ last.op = "read_to_memory"
    /\ last.a + last.b <= size
    /\ last.buf # <<>>
    /\ Len(last.buf) < last.b
    /\ last.res.err[1] = "ReadFromSource"

\* C7: write_from_memory on a valid range returns Ok only when the sink
\* accepted region[mem_offset..mem_offset+count) in order; when the sink
\* accepts fewer bytes the error is ReadFromSource; the region is unchanged
\* whatever the outcome, valid range or not.
C7_Valid ==
    last'.op = "write_from_memory" =>
        LET mem_offset == last'.a
            count == last'.b
            cap == last'.v
        IN  /\ mem' = mem
            /\ last'.a + last'.b <= size =>
                /\ last'.res.ok
                     => /\ Len(last'.sunk) = count
                        /\ \A j \in 1 .. count :
                              last'.sunk[j] = mem[mem_offset + j - 1]
                /\ cap < count
                     => /\ ~last'.res.ok
                        /\ last'.res.err[1] = "ReadFromSource"

C7_WriteFromMemory == [][C7_Valid]_vars

C7_Witness ==
    /\ last.op = "write_from_memory"
    /\ last.a + last.b <= size
    /\ last.v > 0
    /\ last.v < last.b
    /\ last.res.err[1] = "ReadFromSource"

\* C8: get_slice(offset, count) fails with Overflow{base: offset, offset:
\* count} when offset + count overflows u64, else with OutOfBounds{addr:
\* offset + count} when the sum exceeds size, else returns the view that
\* starts at addr + offset and is count bytes long.
C8_GetSlice ==
    last.op = "get_slice" =>
        LET offset == last.a
            count == last.b
        IN  IF offset + count > U64_MAX
            THEN last.res = Err(Overflow(offset, count))
            ELSE IF offset + count > size
            THEN last.res = Err(OutOfBounds(offset + count))
            ELSE /\ last.res = Ok(<<addr + offset, count>>)
                 /\ last.view = Span(offset, count)

C8_Witness ==
    /\ last.op = "get_slice"
    /\ last.b > 0
    /\ last.a > 0
    /\ last.a + last.b = size
    /\ last.res = Ok(<<addr + last.a, last.b>>)

\* C9: from_fd_offset with an offset above the largest signed file offset
\* returns InvalidOffset for every descriptor and size and issues no system
\* call; from_fd asks for offset 0 and never returns InvalidOffset.
C9_OffsetFirst ==
    /\ last.op = "from_fd_offset" /\ last.b > OFF_T_MAX
         => /\ last.res = Err(InvalidOffset)
            /\ last.sys = <<>>
            /\ mmaps = <<>>
            /\ munmaps = <<>>
    /\ last.op = "from_fd"
         => /\ last.res # Err(InvalidOffset)
            /\ last.sys # <<>>
            /\ last.sys[1] = SysMmapFile(last.a, last.v, 0)

C9_Witness ==
    /\ last.op = "from_fd_offset"
    /\ last.b = OFF_T_MAX + 1
    /\ last.v >= 0
    /\ last.a > 0
    /\ last.res = Err(InvalidOffset)

\* C10 as claimed: every new(size) with size > 0 succeeds.
C10_AlwaysSucceeds ==
    last.op = "new" /\ last.a > 0 => last.res.ok

\* C10: new(size) with size > 0 succeeds exactly when the kernel grants the
\* mapping, and otherwise fails with SystemCallFailed and yields no region;
\* the region of a successful new(size) has size() == size, and size() keeps
\* returning the size the region was created with; new(0) fails with
\* SystemCallFailed(EINVAL) and yields no region.
C10_NewAndSize ==
    /\ last.op = "new" /\ last.a > 0
         => /\ last.res.ok <=> mmaps # <<>>
            /\ last.res.ok => lifecycle = "active" /\ size = last.a
            /\ ~last.res.ok
                 => lifecycle = "failed" /\ last.res.err[1] = "SystemCallFailed"
    /\ last.op = "new" /\ last.a = 0
         => last.res = Err(SystemCallFailed("EINVAL")) /\ lifecycle = "failed"
    /\ lifecycle = "active" => mmaps # <<>> /\ size = mmaps[1][2]
    /\ last.op = "size" => last.res = Ok(<<mmaps[1][2]>>)

C10_Witness ==
    /\ last.op = "size"
    /\ last.res = Ok(<<MaxSize>>)
    /\ \E i \in Region : mem[i] # 0

\* What a remove_range step does to the call's own range, whatever it
\* returns: Ok only for a range that fits and an advisory that succeeded,
\* the bytes of the range then zero; no advisory for a range that does not
\* fit; InvalidRange(offset, count) and the contents kept on either failure.
C11_Range ==
    last'.op = "remove_range" =>
        LET offset == last'.a
            count == last'.b
            fits == offset + count <= USIZE_MAX /\ offset + count <= size
        IN  /\ last'.res.ok => fits /\ last'.adv = "ok"
            /\ last'.res.ok => \A i \in Span(offset, count) : mem'[i] = 0
            /\ ~fits => last'.sys = <<>> /\ last'.adv = "none"
            /\ fits => last'.sys = << SysRemove(addr + offset, count) >>
            /\ ~fits \/ last'.adv = "failed"
                 => /\ last'.res = Err(InvalidRange(offset, count))
                    /\ mem' = mem

\* A byte of a live region reads the same after a step that neither stores
\* to it nor discards it.
C11_UntilWritten ==
    lifecycle = "active" /\ lifecycle' = "active" =>
        \A i \in Region \ (last'.wr \cup last'.zeroed) : mem'[i] = mem[i]

\* C11 as claimed: after an Ok the bytes outside [offset, offset + count)
\* are unchanged.
C11_OutsideRange ==
    [][ /\ C11_Range
        /\ C11_UntilWritten
        /\ last'.op = "remove_range" /\ last'.res.ok
             => SameOutside(Span(last'.a, last'.b)) ]_vars

\* The offsets of the pages that hold a byte of [offset, offset + count).
PagesOf(offset, count) ==
    { i \in Region :
        \E j \in Span(offset, count) :
            (addr + i) \div PageSize = (addr + j) \div PageSize }

\* C11: remove_range(offset, count) returns Ok only when offset + count does
\* not overflow, offset + count <= size, and the discard advisory succeeded;
\* after an Ok, reads of every byte in [offset, offset + count) return zero
\* until that byte is next written, and bytes outside the pages that hold a
\* byte of the range are unchanged.  If the range is invalid no advisory call
\* is issued, and both an invalid range and a failed advisory are reported as
\* InvalidRange(offset, count) with the region contents unchanged.
C11_RemoveRange ==
    [][ /\ C11_Range
        /\ C11_UntilWritten
        /\ last'.op = "remove_range" /\ last'.res.ok
             => SameOutside(PagesOf(last'.a, last'.b)) ]_vars

\* A discard of one byte that took the rest of its page with it and left a
\* nonzero byte on the next page.
C11_Witness ==
    /\ last.op = "remove_range"
    /\ last.res.ok
    /\ last.b = 1
    /\ last.zeroed # Span(last.a, last.b)
    /\ \A i \in Span(last.a, last.b) : mem[i] = 0
    /\ \E i \in Region : mem[i] # 0

Creators == {"new", "new_protection", "from_fd", "from_fd_offset"}

\* C12: when a creation call (new, new_protection, from_fd, from_fd_offset)
\* has returned and the kernel granted its mmap, the result is Ok with a
\* live region that owns exactly the granted span, of the size asked for,
\* and nothing has been unmapped, whether or not the exclude-from-core-dump
\* advisory failed; the advisory is the call made next after the granted
\* mmap, on that span, and is made in no other case; a failed advisory goes
\* with an Ok result.
C12_AdvisoryNotFatal ==
    last.op \in Creators =>
        /\ mmaps # <<>>
             => /\ last.res.ok
                /\ lifecycle = "active"
                /\ mmaps = << <<addr, size>> >>
                /\ size = last.a
                /\ munmaps = <<>>
                /\ last.sys = << last.sys[1], SysDontDump(addr, size) >>
        /\ \A i \in DOMAIN last.sys :
               IsDontDump(last.sys[i])
                   => i = 2 /\ IsMmap(last.sys[1]) /\ mmaps # <<>>
        /\ last.warned
             => last.res.ok /\ mmaps # <<>> /\ munmaps = <<>>

\* A region mapped from a file at a nonzero offset whose advisory failed.
C12_Witness ==
    /\ last.op = "from_fd_offset"
    /\ last.b > 0
    /\ last.warned
    /\ last.res.ok
    /\ lifecycle = "active"
    /\ size = MaxSize
    /\ mmaps = << <<addr, size>> >>

====
